---------------------------- MODULE Spec2Model ----------------------------
(***************************************************************************)
(* A model of prompt_lib/prompts/utils.py (and of its older copy           *)
(* prompts/utils.py): PromptConfig and TaskConfig construction, make_prompt *)
(* (format_prompt in the older copy) and make_task_file_from_config.        *)
(*                                                                         *)
(* Python strings are sequences of one-character strings, so that replace, *)
(* strip and the substring test are computed character by character.       *)
(***************************************************************************)
EXTENDS Integers, Sequences, FiniteSets, TLC

VARIABLES
    pc,                   \* control point of the running call
    caller,               \* who called make_prompt: "direct" or "task_file"
    prompt_examples,      \* make_prompt argument: a list pool or a PromptStr
    prompt_config,        \* make_prompt argument / the constructed PromptConfig
    num_prompt_examples,  \* make_prompt argument (rebound at line 140)
    seed,                 \* make_prompt argument
    is_cot_prompt,        \* make_prompt argument
    picked,               \* pool positions chosen by random.Random(seed).sample
    examples,             \* the sampled examples, in sampled order
    loop_i,               \* number of examples the for loop has formatted
    prompt_str,           \* the accumulator of make_prompt's for loop
    ret,                  \* what make_prompt returned or raised
    call_count,           \* how many make_prompt calls this behaviour made
    num_arg,              \* num_prompt_examples as the caller passed it
    globalRng,            \* the module-level generator of `random` (line 4)
    memo,                 \* the first completed call: its arguments and result
    task_config,          \* make_task_file_from_config argument
    task_file,            \* the file at task_file_path (or its absence)
    lines,                \* lines of the file still to be read
    rows,                 \* rows parsed so far (line 185)
    tf_prompt,            \* prompt_str of make_task_file_from_config
    tf_ret,               \* what make_task_file_from_config returned or raised
    cli_args,             \* the argument source of the last PromptConfig built
    built_by,             \* "none", "from_args" or "from_dict"
    rt_config,            \* a constructed TaskConfig (or the error raised)
    rt_dict,              \* its to_dict()
    rt_back               \* from_config_dict(rt_dict) (or the error raised)

mpVars == <<caller, prompt_examples, prompt_config, num_prompt_examples, seed,
            is_cot_prompt, picked, examples, loop_i, prompt_str, ret, num_arg>>
tfVars == <<task_config, task_file, lines, rows, tf_prompt, tf_ret>>
cfgVars == <<cli_args, built_by>>
rtVars == <<rt_config, rt_dict, rt_back>>
vars == <<pc, mpVars, call_count, globalRng, memo, tfVars, cfgVars, rtVars>>

(***************************************************************************)
(* Bounds of the model.                                                    *)
(***************************************************************************)
MaxPool == 3      \* longest example pool
MaxSeed == 1      \* seeds are 0 .. MaxSeed
MaxCount == 4     \* requested counts are -2 .. MaxCount
MaxLines == 2     \* longest task file, in lines
MaxCalls == 2     \* make_prompt calls compared for determinism

(***************************************************************************)
(* Characters and strings.                                                 *)
(***************************************************************************)
NL == "\n"
BS == "\\"
Whitespace == {" ", NL, "\t", "\r"}

RECURSIVE Flatten(_)
Flatten(ss) == IF ss = <<>> THEN <<>> ELSE Head(ss) \o Flatten(Tail(ss))

\* str.replace("\\n", "\n", 1): only the first occurrence
ReplaceFirstEscapedNewline(s) ==
    IF \E k \in 1 .. (Len(s) - 1) : s[k] = BS /\ s[k + 1] = "n"
    THEN LET k == CHOOSE k \in 1 .. (Len(s) - 1) :
                     /\ s[k] = BS /\ s[k + 1] = "n"
                     /\ \A j \in 1 .. (k - 1) : ~(s[j] = BS /\ s[j + 1] = "n")
         IN SubSeq(s, 1, k - 1) \o <<NL>> \o SubSeq(s, k + 2, Len(s))
    ELSE s

\* str.replace("\\n", "\n"): left to right, non-overlapping.
RECURSIVE ReplaceEscapedNewline(_)
ReplaceEscapedNewline(s) ==
    IF s = <<>> THEN <<>>
    ELSE IF Len(s) >= 2 /\ s[1] = BS /\ s[2] = "n"
         THEN <<NL>> \o ReplaceEscapedNewline(SubSeq(s, 3, Len(s)))
         ELSE <<s[1]>> \o ReplaceEscapedNewline(Tail(s))

RECURSIVE LStrip(_)
LStrip(s) == IF s # <<>> /\ Head(s) \in Whitespace THEN LStrip(Tail(s)) ELSE s

RECURSIVE RStrip(_)
RStrip(s) ==
    IF s # <<>> /\ s[Len(s)] \in Whitespace
    THEN RStrip(SubSeq(s, 1, Len(s) - 1)) ELSE s

\* str.strip(): whitespace removed at both ends.
Strip(s) == LStrip(RStrip(s))

\* sub in s
Contains(s, sub) ==
    \E k \in 0 .. (Len(s) - Len(sub)) : SubSeq(s, k + 1, k + Len(sub)) = sub

StartsWith(s, p) == Len(s) >= Len(p) /\ SubSeq(s, 1, Len(p)) = p

HasEscapedNewline(s) == Contains(s, <<BS, "n">>)

(***************************************************************************)
(* PromptConfig.                                                            *)
(***************************************************************************)
ConfigFields == {"question_prefix", "answer_prefix", "final_answer_prefix",
                 "intra_example_sep", "inter_example_sep"}

DefaultConfigShortSep ==
    [question_prefix |-> <<"Q", ":", " ">>,
     answer_prefix |-> <<"A", ":", " ">>,
     final_answer_prefix |-> <<"T","h","e"," ","a","n","s","w","e","r"," ","i","s"," ">>,
     intra_example_sep |-> <<NL>>,
     inter_example_sep |-> <<NL>>]

DefaultConfig ==
    [question_prefix |-> <<"Q", ":", " ">>,
     answer_prefix |-> <<"A", ":", " ">>,
     final_answer_prefix |-> <<"T","h","e"," ","a","n","s","w","e","r"," ","i","s"," ">>,
     intra_example_sep |-> <<NL>>,
     inter_example_sep |-> <<NL, NL>>]

from_args(args) == [f \in ConfigFields |-> ReplaceEscapedNewline(args[f])]

from_dict(config_dict) == [f \in ConfigFields |-> config_dict[f]]

\* What a user can type for the five fields (a command line or a dict).
UserFieldSets ==
    { [question_prefix |-> <<"Q", ":", " ">>,
       answer_prefix |-> <<"A", ":", " ">>,
       final_answer_prefix |-> <<"T","h","e"," ","a","n","s","w","e","r"," ","i","s"," ">>,
       intra_example_sep |-> <<BS, "n">>,
       inter_example_sep |-> <<BS, "n", BS, "n">>],
      [question_prefix |-> <<"Q">>,
       answer_prefix |-> <<" ", "A", " ">>,
       final_answer_prefix |-> <<"F">>,
       intra_example_sep |-> <<"|">>,
       inter_example_sep |-> <<"#">>],
      [question_prefix |-> <<"Q", BS, "n">>,
       answer_prefix |-> <<BS, "n", "A", ":", " ">>,
       final_answer_prefix |-> <<"=">>,
       intra_example_sep |-> <<BS, BS, "n">>,
       inter_example_sep |-> <<BS, "n", "n">>],
      [question_prefix |-> <<>>,
       answer_prefix |-> <<" ", NL>>,
       final_answer_prefix |-> <<>>,
       intra_example_sep |-> <<NL>>,
       inter_example_sep |-> <<>>] }

Configs == {DefaultConfig} \cup {from_args(a) : a \in UserFieldSets}

(***************************************************************************)
(* Examples and pools.                                                     *)
(***************************************************************************)
Digits == <<"1", "2", "3", "4", "5", "6", "7", "8", "9">>

Example224 ==
    [question |-> <<"2", "+", "2", "?">>, answer |-> <<"4">>,
     thought |-> <<"a", "d", "d">>]

ExampleAt(k) ==
    IF k = 1 THEN Example224
    ELSE [question |-> <<"q", Digits[k]>>, answer |-> <<Digits[k]>>,
          thought |-> <<"t", Digits[k]>>]

ListPool(n) ==
    [tag |-> "list", examples |-> [k \in 1 .. n |-> ExampleAt(k)],
     prompt_str |-> <<>>]

PromptStr(s) == [tag |-> "PromptStr", examples |-> <<>>, prompt_str |-> s]

\* isinstance(prompt_examples, PromptStr), lines 136 and 192
NeverPromptStr(pool) == FALSE
IsPromptStr(pool) == pool.tag = "PromptStr"

LiteralPrompts == {<<"P", ":", NL>>, <<>>}

Pools == {ListPool(n) : n \in 0 .. MaxPool} \cup {PromptStr(s) : s \in LiteralPrompts}

Seeds == 0 .. MaxSeed
Counts == -2 .. MaxCount

(***************************************************************************)
(* random.Random(seed).sample(population, k).  The Mersenne Twister is     *)
(* replaced by a small full-period linear congruential generator: what the *)
(* program relies on is that the stream is a function of the seed alone.   *)
(***************************************************************************)
RngMod == 8
RngMul == 5
RngInc == 3

RngSeed(s) == s % RngMod
RngNext(g) == (g * RngMul + RngInc) % RngMod

\* _randbelow(m) on generator state g: the value drawn
RandBelow(g, m) == RngNext(g) % m

\* The generator make_prompt samples from: a fresh random.Random(seed),
\* whatever the state of the module-level generator.
SharedGenerator(s, global) == global
SampleGenerator(s, global) == RngSeed(s)

\* pool[j] = pool[n - i - 1]: the chosen slot is refilled from the end
KeepSlot(pool, j, last) == pool
RefillSlot(pool, j, last) == [pool EXCEPT ![j] = pool[last]]

\* sample's selection loop (the n <= setsize branch); positions are 1-based
RECURSIVE SampleLoop(_, _, _, _)
SampleLoop(pool, g, k, m) ==
    IF k = 0 THEN <<>>
    ELSE LET j == RandBelow(g, m) + 1
         IN <<pool[j]>> \o SampleLoop(RefillSlot(pool, j, m), RngNext(g), k - 1, m - 1)

SampleOk(n, k) == 0 <= k /\ k <= n

\* positions of the population chosen by sample(population, k), len = n
Sample(g, n, k) == SampleLoop([p \in 1 .. n |-> p], g, k, n)

\* lines 139-140
ClampCount(count, n) == IF count = -1 \/ count > n THEN n ELSE count
EffectiveCount(count, n) == IF count = -1 THEN n ELSE count

(***************************************************************************)
(* make_prompt: the pieces appended per example.                           *)
(***************************************************************************)
QuestionPart(cfg, e) == cfg.question_prefix \o e.question \o cfg.intra_example_sep

AnswerPartAlwaysThought(cfg, e, cot) ==
    (cfg.answer_prefix \o e.thought \o <<" ">>)
        \o (cfg.final_answer_prefix \o e.answer \o cfg.intra_example_sep)

AnswerPart(cfg, e, cot) ==
    IF cot
    THEN (cfg.answer_prefix \o e.thought \o <<" ">>)
            \o (cfg.final_answer_prefix \o e.answer \o cfg.intra_example_sep)
    ELSE cfg.answer_prefix \o cfg.final_answer_prefix \o e.answer
            \o cfg.intra_example_sep

NoResult == [kind |-> "none", value |-> <<>>]
Returned(s) == [kind |-> "str", value |-> s]
Raised(err) == [kind |-> err, value |-> <<>>]

NoMemo == [set |-> FALSE, pool |-> ListPool(0), cfg |-> DefaultConfig, count |-> 0,
           seed |-> 0, cot |-> FALSE, ret |-> NoResult]


(***************************************************************************)
(* TaskConfig: construction, to_dict, from_config_dict.  A field value     *)
(* carries its Python type, which to_dict inspects.                        *)
(***************************************************************************)
PyInt(n) == [type |-> "int", val |-> n]
PyStr(s) == [type |-> "str", val |-> s]
PyBool(b) == [type |-> "bool", val |-> b]
PyFloat(x) == [type |-> "float", val |-> x]
ConfigObject(cfg) == [type |-> "PromptConfig", val |-> cfg]
Dict(d) == [type |-> "dict", val |-> d]
Function(name) == [type |-> "function", val |-> name]

TaskFields ==
    {"task_id", "tag", "num_prompt_examples", "max_tokens", "seed",
     "num_questions_per_thread", "is_cot_task", "model_name", "cached_timestamp",
     "max_requests_per_min", "prompt_config", "temperature", "eval_function"}

\* The functions of prompt_lib.eval that this file names.
EvalNames == {"get_exact_match_acc"}
EvalInputs == EvalNames \cup {"no_such_function"}

\* The keyword arguments of TaskConfig(...), lines 80-94 and 100-113.
TaskKwargs(num, s, cot, cfg, evalValue) ==
    [task_id |-> PyStr("gsm_cot"), tag |-> PyStr("run"),
     num_prompt_examples |-> PyInt(num), max_tokens |-> PyInt(300), seed |-> PyInt(s),
     num_questions_per_thread |-> PyInt(10), is_cot_task |-> PyBool(cot),
     model_name |-> PyStr("davinci"), cached_timestamp |-> PyStr(""),
     max_requests_per_min |-> PyInt(20), prompt_config |-> cfg,
     temperature |-> PyFloat(0), eval_function |-> evalValue]

NoTaskRecord ==
    [ok |-> FALSE, error |-> "none",
     fields |-> TaskKwargs(0, 0, FALSE, ConfigObject(DefaultConfig), PyStr(""))]

\* str(v) of a function object: "<function name at 0x...>"
FunctionRepr(name) == "<function " \o name \o " at 0x7f00>"

\* TaskConfig(**kwargs): the dataclass __init__, then __post_init__ (line 67)
TaskConfigNew(kwargs) ==
    IF kwargs.eval_function.type = "str" /\ kwargs.eval_function.val \in EvalNames
    THEN [ok |-> TRUE, error |-> "none",
          fields |-> [kwargs EXCEPT !.eval_function = Function(kwargs.eval_function.val)]]
    ELSE [ok |-> FALSE,
          error |-> IF kwargs.eval_function.type = "str" THEN "AttributeError"
                    ELSE "TypeError",
          fields |-> kwargs]

\* lines 69-76
to_dict(fields) ==
    [k \in TaskFields |->
        IF fields[k].type = "PromptConfig" THEN Dict(fields[k].val)
        ELSE IF fields[k].type \notin {"int", "float", "str", "bool"}
             THEN PyStr(FunctionRepr(fields[k].val))
             ELSE fields[k]]

\* lines 98-114
from_config_dict(config_dict) ==
    TaskConfigNew([k \in TaskFields |->
        IF k = "prompt_config"
        THEN ConfigObject(from_dict(config_dict["prompt_config"].val))
        ELSE config_dict[k]])

(***************************************************************************)
(* Initial state: nothing has been called.                                 *)
(***************************************************************************)
MPIdle ==
    /\ caller = "direct"
    /\ prompt_examples = ListPool(0)
    /\ prompt_config = DefaultConfig
    /\ num_prompt_examples = 0
    /\ num_arg = 0
    /\ seed = 0
    /\ is_cot_prompt = FALSE
    /\ picked = <<>>
    /\ examples = <<>>
    /\ loop_i = 0
    /\ prompt_str = <<>>
    /\ ret = NoResult

NoTaskConfig ==
    [task_id |-> 0, num_prompt_examples |-> 0, seed |-> 0, is_cot_task |-> FALSE,
     model_name |-> <<>>, prompt_config |-> DefaultConfig]

NoFile == [exists |-> FALSE, lines |-> <<>>]

TFIdle ==
    /\ task_config = NoTaskConfig
    /\ task_file = NoFile
    /\ lines = <<>>
    /\ rows = <<>>
    /\ tf_prompt = <<>>
    /\ tf_ret = [kind |-> "none", table |-> <<>>]

Init ==
    /\ pc = "idle"
    /\ MPIdle
    /\ TFIdle
    /\ call_count = 0
    /\ globalRng = 0
    /\ memo = NoMemo
    /\ cli_args = DefaultConfig
    /\ built_by = "none"
    /\ rt_config = NoTaskRecord
    /\ rt_dict = NoTaskRecord.fields
    /\ rt_back = NoTaskRecord

(***************************************************************************)
(* make_prompt (format_prompt in prompts/utils.py).                        *)
(***************************************************************************)
\* Lines 136-143: the PromptStr early return, the count, the sample.
MP_Enter(pool, cfg, count, s, cot, who) ==
    /\ caller' = who
    /\ prompt_examples' = pool
    /\ prompt_config' = cfg
    /\ num_arg' = count
    /\ seed' = s
    /\ is_cot_prompt' = cot
    /\ loop_i' = 0
    /\ prompt_str' = <<>>
    /\ IF IsPromptStr(pool)
       THEN /\ ret' = Returned(pool.prompt_str)
            /\ num_prompt_examples' = count
            /\ picked' = <<>>
            /\ examples' = <<>>
            /\ pc' = "mp_done"
       ELSE LET n == Len(pool.examples)
                k == EffectiveCount(count, n)
            IN /\ num_prompt_examples' = k
               /\ IF SampleOk(n, k)
                  THEN /\ picked' = Sample(SampleGenerator(s, globalRng), n, k)
                       /\ examples' = [t \in 1 .. k |-> pool.examples[picked'[t]]]
                       /\ ret' = NoResult
                       /\ pc' = "mp_loop"
                  ELSE /\ picked' = <<>>
                       /\ examples' = <<>>
                       /\ ret' = Raised("ValueError")
                       /\ pc' = "mp_done"

\* Lines 144-162: one iteration of the for loop.
MP_LoopStep ==
    /\ pc = "mp_loop"
    /\ loop_i < Len(examples)
    /\ LET example == examples[loop_i + 1]
           s1 == prompt_str \o QuestionPart(prompt_config, example)
           s2 == s1 \o AnswerPart(prompt_config, example, is_cot_prompt)
       IN prompt_str' = s2 \o prompt_config.inter_example_sep
    /\ loop_i' = loop_i + 1
    /\ UNCHANGED <<pc, caller, prompt_examples, prompt_config, num_prompt_examples,
                   seed, is_cot_prompt, picked, examples, ret, num_arg,
                   call_count, globalRng, memo, tfVars, cfgVars, rtVars>>

\* Line 165.
MP_Return ==
    /\ pc = "mp_loop"
    /\ loop_i = Len(examples)
    /\ ret' = Returned(prompt_str)
    /\ pc' = "mp_done"
    /\ UNCHANGED <<caller, prompt_examples, prompt_config, num_prompt_examples,
                   seed, is_cot_prompt, picked, examples, loop_i, prompt_str,
                   num_arg, call_count, globalRng, memo, tfVars, cfgVars, rtVars>>

\* A caller invokes make_prompt with arguments of its choice.
Call ==
    /\ pc = "idle"
    /\ \E pool \in Pools, cfg \in Configs, count \in Counts, s \in Seeds,
          cot \in BOOLEAN :
          MP_Enter(pool, cfg, count, s, cot, "direct")
    /\ UNCHANGED <<call_count, globalRng, memo, tfVars, cfgVars, rtVars>>

MPReset ==
    /\ caller' = "direct"
    /\ prompt_examples' = ListPool(0)
    /\ prompt_config' = DefaultConfig
    /\ num_prompt_examples' = 0
    /\ num_arg' = 0
    /\ seed' = 0
    /\ is_cot_prompt' = FALSE
    /\ picked' = <<>>
    /\ examples' = <<>>
    /\ loop_i' = 0
    /\ prompt_str' = <<>>
    /\ ret' = NoResult

\* The caller has the result; the frame is gone.
Finish ==
    /\ pc = "mp_done"
    /\ caller = "direct"
    /\ pc' = "idle"
    /\ MPReset
    /\ cli_args' = DefaultConfig
    /\ built_by' = "none"
    /\ UNCHANGED <<call_count, globalRng, memo, tfVars, rtVars>>

(***************************************************************************)
(* make_task_file_from_config.                                             *)
(*                                                                         *)
(* A line of the task file either fails json.loads or is a JSON object     *)
(* that may or may not carry the keys "input" and "target" (string values).*)
(* pd.DataFrame(rows) has the union of the rows' keys as its columns and   *)
(* NaN where a row lacks a key; str + Series leaves NaN where the Series    *)
(* holds NaN; task_df[key] raises KeyError when no row carried the key.    *)
(***************************************************************************)
JsonLine(hasInput, hasTarget, inp, tgt) ==
    [valid |-> TRUE, has_input |-> hasInput, has_target |-> hasTarget,
     input |-> inp, target |-> tgt]

LineKinds ==
    { JsonLine(TRUE, TRUE, <<"x">>, <<"7">>),
      JsonLine(FALSE, TRUE, <<>>, <<"9">>),
      JsonLine(TRUE, FALSE, <<"z">>, <<>>),
      [valid |-> FALSE, has_input |-> FALSE, has_target |-> FALSE,
       input |-> <<>>, target |-> <<>>] }

SeqsUpTo(S, n) == UNION {[1 .. m -> S] : m \in 0 .. n}

TaskFiles ==
    {NoFile} \cup {[exists |-> TRUE, lines |-> ls] : ls \in SeqsUpTo(LineKinds, MaxLines)}

ModelNames ==
    { <<"d", "a", "v", "i", "n", "c", "i">>,
      <<"c", "o", "d", "e", "-", "c", "u", "s", "h", "m", "a", "n">>,
      <<"d", "e", "c", "o", "d", "e", "r">> }

\* The registry: task ids 0 .. MaxPool name list pools of that length, the
\* next id a literal prompt.
LiteralTaskId == MaxPool + 1
TaskIds == 0 .. LiteralTaskId
task_id_to_prompt ==
    [t \in TaskIds |->
        IF t = LiteralTaskId THEN PromptStr(<<"P", ":", NL>>) ELSE ListPool(t)]

TaskConfigs ==
    [task_id : TaskIds, num_prompt_examples : {-1, 1, MaxCount}, seed : Seeds,
     is_cot_task : BOOLEAN, model_name : ModelNames, prompt_config : Configs]

Cell(s) == [nan |-> FALSE, s |-> s]
NaN == [nan |-> TRUE, s |-> <<>>]

TableOf(t) == [kind |-> "table", table |-> t]
TaskRaised(err) == [kind |-> err, table |-> <<>>]

\* line 203
is_non_code_model(tc) == ~Contains(tc.model_name, <<"c", "o", "d", "e">>)

\* lines 210-214
AnswerSuffix(tc) ==
    IF is_non_code_model(tc)
    THEN Strip(tc.prompt_config.answer_prefix)
    ELSE tc.prompt_config.answer_prefix

\* lines 205-215, for one row
QuestionOf(prefix, tc, row) ==
    IF row.has_input
    THEN Cell(prefix \o tc.prompt_config.question_prefix \o row.input
                \o tc.prompt_config.intra_example_sep \o AnswerSuffix(tc))
    ELSE NaN

AnswerOf(row) == IF row.has_target THEN Cell(row.target) ELSE NaN

HasColumn(rs, key) ==
    \E k \in 1 .. Len(rs) : IF key = "input" THEN rs[k].has_input ELSE rs[k].has_target

\* lines 179-183: the path is derived and the file opened
TF_Call ==
    /\ pc = "idle"
    /\ \E tc \in TaskConfigs, f \in TaskFiles :
          /\ task_config' = tc
          /\ task_file' = f
          /\ rows' = <<>>
          /\ tf_prompt' = <<>>
          /\ IF f.exists
             THEN /\ lines' = f.lines
                  /\ tf_ret' = tf_ret
                  /\ pc' = "tf_read"
             ELSE /\ lines' = <<>>
                  /\ tf_ret' = TaskRaised("FileNotFoundError")
                  /\ pc' = "tf_done"
    /\ UNCHANGED <<mpVars, call_count, globalRng, memo, cfgVars, rtVars>>

\* lines 184-185: one line of the file
TF_ReadLine ==
    /\ pc = "tf_read"
    /\ lines # <<>>
    /\ IF Head(lines).valid
       THEN /\ rows' = Append(rows, Head(lines))
            /\ lines' = Tail(lines)
            /\ UNCHANGED <<pc, tf_ret>>
       ELSE /\ tf_ret' = TaskRaised("JSONDecodeError")
            /\ pc' = "tf_done"
            /\ UNCHANGED <<rows, lines>>
    /\ UNCHANGED <<task_config, task_file, tf_prompt, mpVars, call_count, globalRng,
                   memo, cfgVars, rtVars>>

\* lines 192-193: the registry holds a literal prompt
TF_LiteralPrompt ==
    /\ pc = "tf_read"
    /\ lines = <<>>
    /\ IsPromptStr(task_id_to_prompt[task_config.task_id])
    /\ tf_prompt' = task_id_to_prompt[task_config.task_id].prompt_str
    /\ pc' = "tf_build"
    /\ UNCHANGED <<task_config, task_file, lines, rows, tf_ret, mpVars, call_count,
                   globalRng, memo, cfgVars, rtVars>>

\* lines 195-201: the registry holds a list; make_prompt is called
TF_CallMakePrompt ==
    /\ pc = "tf_read"
    /\ lines = <<>>
    /\ ~IsPromptStr(task_id_to_prompt[task_config.task_id])
    /\ MP_Enter(task_id_to_prompt[task_config.task_id], task_config.prompt_config,
                task_config.num_prompt_examples, task_config.seed,
                task_config.is_cot_task, "task_file")
    /\ UNCHANGED <<tfVars, call_count, globalRng, memo, cfgVars, rtVars>>

\* make_prompt is back: its string is the prefix, its exception propagates
TF_PromptBack ==
    /\ pc = "mp_done"
    /\ caller = "task_file"
    /\ IF ret.kind = "str"
       THEN /\ tf_prompt' = ret.value
            /\ pc' = "tf_build"
            /\ UNCHANGED tf_ret
       ELSE /\ tf_ret' = TaskRaised(ret.kind)
            /\ pc' = "tf_done"
            /\ UNCHANGED tf_prompt
    /\ UNCHANGED <<task_config, task_file, lines, rows, mpVars, call_count,
                   globalRng, memo, cfgVars, rtVars>>

\* lines 203-218
TF_Build ==
    /\ pc = "tf_build"
    /\ tf_ret' =
          IF ~HasColumn(rows, "input") \/ ~HasColumn(rows, "target")
          THEN TaskRaised("KeyError")
          ELSE TableOf([k \in 1 .. Len(rows) |->
                          [question |-> QuestionOf(tf_prompt, task_config, rows[k]),
                           answer |-> AnswerOf(rows[k])]])
    /\ pc' = "tf_done"
    /\ UNCHANGED <<task_config, task_file, lines, rows, tf_prompt, mpVars,
                   call_count, globalRng, memo, cfgVars, rtVars>>

TF_Finish ==
    /\ pc = "tf_done"
    /\ pc' = "idle"
    /\ MPReset
    /\ task_config' = NoTaskConfig
    /\ task_file' = NoFile
    /\ lines' = <<>>
    /\ rows' = <<>>
    /\ tf_prompt' = <<>>
    /\ tf_ret' = [kind |-> "none", table |-> <<>>]
    /\ UNCHANGED <<call_count, globalRng, memo, cfgVars, rtVars>>

Next ==
    \/ Call
    \/ MP_LoopStep
    \/ MP_Return
    \/ Finish
    \/ TF_Call
    \/ TF_ReadLine
    \/ TF_LiteralPrompt
    \/ TF_CallMakePrompt
    \/ TF_PromptBack
    \/ TF_Build
    \/ TF_Finish

Spec == Init /\ [][Next]_vars

(***************************************************************************)
(* Repeated calls of make_prompt with the same arguments, while other code *)
(* of the process draws from the module-level generator in between.        *)
(***************************************************************************)
DetCall ==
    /\ pc = "idle"
    /\ call_count < MaxCalls
    /\ \E pool \in Pools, cfg \in Configs, count \in Counts, s \in Seeds,
          cot \in BOOLEAN :
          /\ memo.set =>
                /\ pool = memo.pool
                /\ cfg = memo.cfg
                /\ count = memo.count
                /\ s = memo.seed
                /\ cot = memo.cot
          /\ MP_Enter(pool, cfg, count, s, cot, "direct")
    /\ UNCHANGED <<call_count, globalRng, memo, tfVars, cfgVars, rtVars>>

DetFinish ==
    /\ pc = "mp_done"
    /\ caller = "direct"
    /\ memo' = IF memo.set THEN memo
               ELSE [set |-> TRUE, pool |-> prompt_examples, cfg |-> prompt_config,
                     count |-> num_arg, seed |-> seed, cot |-> is_cot_prompt,
                     ret |-> ret]
    /\ call_count' = call_count + 1
    /\ pc' = "idle"
    /\ MPReset
    /\ UNCHANGED <<globalRng, tfVars, cfgVars, rtVars>>

\* random.random(), random.shuffle(...) somewhere else in the process
OtherRandomUse ==
    /\ pc = "idle"
    /\ globalRng' = RngNext(globalRng)
    /\ UNCHANGED <<pc, mpVars, call_count, memo, tfVars, cfgVars, rtVars>>

NextDet ==
    \/ DetCall
    \/ MP_LoopStep
    \/ MP_Return
    \/ DetFinish
    \/ OtherRandomUse

SpecDet == Init /\ [][NextDet]_vars

(***************************************************************************)
(* A PromptConfig is built from user input, then a prompt is assembled     *)
(* with it.                                                                *)
(***************************************************************************)
Cfg_FromArgs ==
    /\ pc = "idle"
    /\ \E a \in UserFieldSets :
          /\ cli_args' = a
          /\ prompt_config' = from_args(a)
    /\ built_by' = "from_args"
    /\ pc' = "cfg_built"
    /\ UNCHANGED <<caller, prompt_examples, num_prompt_examples, seed, is_cot_prompt,
                   picked, examples, loop_i, prompt_str, ret, num_arg, call_count,
                   globalRng, memo, tfVars, rtVars>>

Cfg_FromDict ==
    /\ pc = "idle"
    /\ \E d \in UserFieldSets :
          /\ cli_args' = d
          /\ prompt_config' = from_dict(d)
    /\ built_by' = "from_dict"
    /\ pc' = "cfg_built"
    /\ UNCHANGED <<caller, prompt_examples, num_prompt_examples, seed, is_cot_prompt,
                   picked, examples, loop_i, prompt_str, ret, num_arg, call_count,
                   globalRng, memo, tfVars, rtVars>>

Cfg_Call ==
    /\ pc = "cfg_built"
    /\ \E pool \in Pools, count \in Counts, s \in Seeds, cot \in BOOLEAN :
          MP_Enter(pool, prompt_config, count, s, cot, "direct")
    /\ UNCHANGED <<call_count, globalRng, memo, tfVars, cfgVars, rtVars>>

NextConfig ==
    \/ Cfg_FromArgs
    \/ Cfg_FromDict
    \/ Cfg_Call
    \/ MP_LoopStep
    \/ MP_Return
    \/ Finish

SpecConfig == Init /\ [][NextConfig]_vars

(***************************************************************************)
(* The round trip TaskConfig -> to_dict -> from_config_dict.                *)
(***************************************************************************)
RT_Construct ==
    /\ pc = "idle"
    /\ \E num \in Counts, s \in Seeds, cot \in BOOLEAN, cfg \in Configs,
          name \in EvalInputs :
          rt_config' = TaskConfigNew(TaskKwargs(num, s, cot, ConfigObject(cfg), PyStr(name)))
    /\ pc' = IF rt_config'.ok THEN "rt_built" ELSE "rt_done"
    /\ UNCHANGED <<rt_dict, rt_back, mpVars, call_count, globalRng, memo, tfVars,
                   cfgVars>>

RT_ToDict ==
    /\ pc = "rt_built"
    /\ rt_dict' = to_dict(rt_config.fields)
    /\ pc' = "rt_dict"
    /\ UNCHANGED <<rt_config, rt_back, mpVars, call_count, globalRng, memo, tfVars,
                   cfgVars>>

RT_FromConfigDict ==
    /\ pc = "rt_dict"
    /\ rt_back' = from_config_dict(rt_dict)
    /\ pc' = "rt_done"
    /\ UNCHANGED <<rt_config, rt_dict, mpVars, call_count, globalRng, memo, tfVars,
                   cfgVars>>

RT_Finish ==
    /\ pc = "rt_done"
    /\ pc' = "idle"
    /\ rt_config' = NoTaskRecord
    /\ rt_dict' = NoTaskRecord.fields
    /\ rt_back' = NoTaskRecord
    /\ UNCHANGED <<mpVars, call_count, globalRng, memo, tfVars, cfgVars>>

NextRoundTrip ==
    \/ RT_Construct
    \/ RT_ToDict
    \/ RT_FromConfigDict
    \/ RT_Finish

SpecRoundTrip == Init /\ [][NextRoundTrip]_vars

(***************************************************************************)
(* Properties.                                                             *)
(***************************************************************************)
SameArgsAsMemo ==
    /\ memo.set
    /\ prompt_examples = memo.pool
    /\ prompt_config = memo.cfg
    /\ num_arg = memo.count
    /\ seed = memo.seed
    /\ is_cot_prompt = memo.cot

\* C1: a call of make_prompt with the arguments of an earlier call returns
\* what the earlier call returned (the same string or the same error),
\* whatever was drawn from the module-level generator in between.
C1_Deterministic == (pc = "mp_done" /\ SameArgsAsMemo) => ret = memo.ret

C1_Witness ==
    /\ pc = "mp_done"
    /\ SameArgsAsMemo
    /\ globalRng # 0
    /\ prompt_examples.tag = "list"
    /\ Len(prompt_examples.examples) >= 2
    /\ num_arg >= 1
    /\ num_arg < Len(prompt_examples.examples)
    /\ ret.kind = "str"

\* The block of one example, as the specification words it.
ExpectedBlock(cfg, e, cot) ==
    Flatten(<<cfg.question_prefix, e.question, cfg.intra_example_sep,
              IF cot
              THEN Flatten(<<cfg.answer_prefix, e.thought, <<" ">>,
                             cfg.final_answer_prefix, e.answer,
                             cfg.intra_example_sep>>)
              ELSE Flatten(<<cfg.answer_prefix, cfg.final_answer_prefix, e.answer,
                             cfg.intra_example_sep>>),
              cfg.inter_example_sep>>)

ExpectedPrompt ==
    Flatten([t \in 1 .. Len(picked) |->
                ExpectedBlock(prompt_config, prompt_examples.examples[picked[t]],
                              is_cot_prompt)])

C3_SelectsAll ==
    (pc \in {"mp_loop", "mp_done"} /\ prompt_examples.tag = "list" /\ num_arg = -1) =>
        /\ ret.kind # "ValueError"
        /\ Len(picked) = Len(prompt_examples.examples)
        /\ {picked[t] : t \in 1 .. Len(picked)} = 1 .. Len(prompt_examples.examples)
        /\ examples = [t \in 1 .. Len(picked) |-> prompt_examples.examples[picked[t]]]

C3_Witness ==
    /\ pc = "mp_done"
    /\ prompt_examples.tag = "list"
    /\ num_arg = -1
    /\ Len(prompt_examples.examples) >= 3
    /\ picked # [t \in 1 .. Len(picked) |-> t]
    /\ ret.kind = "str"

\* C4: a count above the pool's length makes make_prompt raise (ValueError
\* out of random.sample): the loop is never entered, nothing is selected and
\* no string is returned.
C4_CountAbovePoolFails ==
    (/\ pc \in {"mp_loop", "mp_done"}
     /\ prompt_examples.tag = "list"
     /\ num_arg > Len(prompt_examples.examples)) =>
        /\ pc = "mp_done"
        /\ ret = Raised("ValueError")
        /\ picked = <<>>
        /\ prompt_str = <<>>

C4_Witness ==
    /\ pc = "mp_done"
    /\ prompt_examples.tag = "list"
    /\ Len(prompt_examples.examples) >= 1
    /\ num_arg > Len(prompt_examples.examples)
    /\ ret.kind = "ValueError"

\* The rule of the specification for the end of a question.
ExpectedSuffix(tc) ==
    IF Contains(tc.model_name, <<"c", "o", "d", "e">>)
    THEN tc.prompt_config.answer_prefix
    ELSE RStrip(tc.prompt_config.answer_prefix)

\* C5: every question is prefix + question_prefix + input + intra_example_sep
\* + P, where P is answer_prefix without its trailing whitespace for a
\* model name without "code", and answer_prefix itself otherwise.
C5_QuestionSuffix ==
    (pc = "tf_done" /\ tf_ret.kind = "table") =>
        \A k \in 1 .. Len(rows) :
            rows[k].has_input =>
                tf_ret.table[k].question =
                    Cell(tf_prompt \o task_config.prompt_config.question_prefix
                           \o rows[k].input
                           \o task_config.prompt_config.intra_example_sep
                           \o ExpectedSuffix(task_config))

LiteralScenario ==
    /\ pc = "mp_done"
    /\ prompt_examples = ListPool(1)
    /\ prompt_config = DefaultConfig
    /\ num_arg = 1
    /\ seed = 0
    /\ is_cot_prompt

\* C6 as stated: the scenario's prompt ends with two newlines.
C6_TwoNewlines ==
    LiteralScenario =>
        ret = Returned(<<"Q", ":", " ", "2", "+", "2", "?", NL,
                         "A", ":", " ", "a", "d", "d", " ",
                         "T","h","e"," ","a","n","s","w","e","r"," ","i","s"," ",
                         "4", NL, NL>>)

\* C6 (amended): with the pool of the single Example("2+2?", "4", "add"), the
\* default configuration, count 1, seed 0 and chain of thought, make_prompt
\* returns "Q: 2+2?" NL "A: add The answer is 4" NL NL NL: intra_example_sep
\* and then the two newlines of inter_example_sep follow the answer.
C6_ThreeNewlines ==
    LiteralScenario =>
        ret = Returned(<<"Q", ":", " ", "2", "+", "2", "?", NL,
                         "A", ":", " ", "a", "d", "d", " ",
                         "T","h","e"," ","a","n","s","w","e","r"," ","i","s"," ",
                         "4", NL, NL, NL>>)

C6_Witness == LiteralScenario /\ ret.kind = "str"

TaskPool == task_id_to_prompt[task_config.task_id]

\* C7: for a PromptStr pool make_prompt returns prompt_str itself, whatever
\* the count, seed, flag and configuration, without sampling; and
\* make_task_file_from_config never calls make_prompt for a literal entry,
\* takes the literal as its prefix and starts every question it builds with it.
C7_LiteralPassthrough ==
    /\ (pc = "mp_done" /\ prompt_examples.tag = "PromptStr") =>
          /\ ret = Returned(prompt_examples.prompt_str)
          /\ picked = <<>>
    /\ (pc \in {"tf_build", "tf_done"} /\ TaskPool.tag = "PromptStr"
          /\ tf_ret.kind \notin {"FileNotFoundError", "JSONDecodeError"}) =>
          /\ tf_prompt = TaskPool.prompt_str
          /\ caller = "direct"
          /\ ret = NoResult
          /\ tf_ret.kind = "table" =>
                \A k \in 1 .. Len(rows) :
                    rows[k].has_input =>
                        /\ ~tf_ret.table[k].question.nan
                        /\ StartsWith(tf_ret.table[k].question.s, TaskPool.prompt_str)

C7_Witness ==
    /\ pc = "mp_done"
    /\ prompt_examples.tag = "PromptStr"
    /\ prompt_examples.prompt_str # <<>>
    /\ num_arg = -2
    /\ ret = Returned(prompt_examples.prompt_str)

\* occurrences of backslash-n in s, and of the newline character
EscapedNewlines(s) == Cardinality({k \in 1 .. (Len(s) - 1) : s[k] = BS /\ s[k + 1] = "n"})
Newlines(s) == Cardinality({k \in 1 .. Len(s) : s[k] = NL})

MalformedFile ==
    /\ task_file.exists
    /\ \E k \in 1 .. Len(task_file.lines) :
          \/ ~task_file.lines[k].valid
          \/ ~task_file.lines[k].has_input
          \/ ~task_file.lines[k].has_target

\* C9: a task file with a line that is no valid record, or that lacks input
\* or target, makes make_task_file_from_config fail: no table is returned.
C9_MalformedFails ==
    (pc = "tf_done" /\ MalformedFile) => tf_ret.kind # "table"

\* C10: from_config_dict(c.to_dict()) succeeds and equals c in every field.
C10_RoundTrip ==
    (pc = "rt_done" /\ rt_config.ok) =>
        /\ rt_back.ok
        /\ rt_back.fields = rt_config.fields

=============================================================================
